---- MODULE Spec2Model ----
(***************************************************************************)
(* A model of agent.py, the 2048 player: the row merge rule, the move      *)
(* simulator, the heuristic evaluator, the lookahead search, the decision  *)
(* policy, the reward function and the episode driver.                     *)
(*                                                                         *)
(* A board is a sequence of rows, a row a sequence of tile values, as the  *)
(* Python lists are; Python's 0-based index i is the 1-based index i + 1.  *)
(* A game state is a record whose domain is the set of keys the dict       *)
(* holds, so that a missing key is a field outside DOMAIN.                 *)
(***************************************************************************)
EXTENDS Integers, Sequences, FiniteSets, TLC

VARIABLES
    pc,                                  \* position of the running call
    row, merged_row, row_gain,           \* compress_and_merge_row_left: argument, results
    board, direction, new_board, score_gain, moved,  \* move_local: arguments, results
    depth, score,                        \* lookahead_score: argument, result
    action, used_random,                 \* decide_action: result, and whether random.choice ran
    old_state, new_state, reward,        \* compute_reward: arguments, outcome
    state, done, move_count, game_experience,   \* play_one_game: locals
    sent, observed                       \* history: moves sent to the server, states it returned

rowVars == <<row, merged_row, row_gain>>
simVars == <<board, direction, new_board, score_gain, moved>>
policyVars == <<depth, score, action, used_random>>
rewardVars == <<old_state, new_state, reward>>
gameVars == <<state, done, move_count, game_experience, sent, observed>>
vars == <<pc, row, merged_row, row_gain, board, direction, new_board, score_gain,
          moved, depth, score, action, used_random, old_state, new_state, reward,
          state, done, move_count, game_experience, sent, observed>>

(***************************************************************************)
(* Bounds of the model.                                                    *)
(***************************************************************************)
\* tiles are 2^1 .. 2^MaxExp in the boards and rows the calls start from
MaxExp == 2
\* a starting board of the move simulation holds at most MaxTiles tiles
MaxTiles == 2

\* lookahead_score is called with depths 0 .. MaxDepth
MaxDepth == 2
\* play_one_game is followed for at most MaxMoves moves
MaxMoves == 2

\* the side of the board (range(4), board[3][3])
Size == 4
\* the depth decide_action passes to lookahead_score
LookaheadDepth == 2
\* what lookahead_score returns when no move is possible
GameOverPenalty == -10000

RECURSIVE Pow2(_)
Pow2(e) == IF e = 0 THEN 1 ELSE 2 * Pow2(e - 1)

Tiles == {Pow2(e) : e \in 1..MaxExp}
Cells == {0} \cup Tiles
Rows == [1..Size -> Cells]

\* the sum of the first n elements of s
RECURSIVE SumTo(_, _)
SumTo(s, n) == IF n = 0 THEN 0 ELSE s[n] + SumTo(s, n - 1)

SumSeq(s) == SumTo(s, Len(s))

RECURSIVE RowSumsTo(_, _)
RowSumsTo(b, n) == IF n = 0 THEN 0 ELSE SumSeq(b[n]) + RowSumsTo(b, n - 1)

BoardSum(b) == RowSumsTo(b, Len(b))

(***************************************************************************)
(* Board utilities.                                                        *)
(***************************************************************************)
\* a Python list built by a comprehension: the elements are computed once,
\* when the list is built
list(f) == f \o <<>>

transpose(b) ==
    IF b = <<>> THEN <<>>
    ELSE list([c \in 1..Len(b[1]) |-> list([r \in 1..Len(b) |-> b[r][c]])])

\* list(reversed(row))
reversed(r) == list([i \in 1..Len(r) |-> r[Len(r) + 1 - i]])

reverse(b) == list([r \in 1..Len(b) |-> reversed(b[r])])

\* variants of merged_val: the pair replaced by one of its tiles, and tripled
merged_val_kept(v) == v
merged_val_tripled(v) == v * 3

\* the value appended for a pair of equal tiles
merged_val(v) == v * 2

\* the while loop of compress_and_merge_row_left; i is Python's index
RECURSIVE merge_loop(_, _, _, _, _)
merge_loop(new_row, i, skip, acc, gain) ==
    IF ~(i < Len(new_row))
    THEN <<acc, gain>>
    ELSE IF ~skip /\ i + 1 < Len(new_row) /\ new_row[i + 1] = new_row[i + 2]
         THEN merge_loop(new_row, i + 2, TRUE,
                         Append(acc, merged_val(new_row[i + 1])),
                         gain + merged_val(new_row[i + 1]))
         ELSE merge_loop(new_row, i + 1, FALSE, Append(acc, new_row[i + 1]), gain)

\* returns <<merged_row, score_gain>>
compress_and_merge_row_left(r) ==
    LET new_row == SelectSeq(r, LAMBDA val : val # 0)
        res == merge_loop(new_row, 0, FALSE, <<>>, 0)
    IN  <<res[1] \o list([k \in 1..(Len(r) - Len(res[1])) |-> 0]), res[2]>>

\* the body of move_local's for loops: each row of temp_board merged to the
\* left, through a reversal and back for right and down
merge_rows(temp_board, rev) ==
    list([r \in 1..Len(temp_board) |->
        IF rev
        THEN LET m == compress_and_merge_row_left(reversed(temp_board[r]))
             IN  <<reversed(m[1]), m[2]>>
        ELSE compress_and_merge_row_left(temp_board[r])])

\* variant of rows_moved: a move counts only when it merges
rows_moved_on_gain(temp_board, merged) ==
    \E r \in 1..Len(temp_board) : merged[r][2] > 0

\* moved: some merged_row != row
rows_moved(temp_board, merged) ==
    \E r \in 1..Len(temp_board) : merged[r][1] # temp_board[r]

\* d is one of possible_moves, as in every call the source makes; any other
\* value raises ValueError
move_local(b, d) ==
    LET vertical == d \in {"up", "down"}
        temp_board == IF vertical THEN transpose(b) ELSE b
        merged == merge_rows(temp_board, d \in {"right", "down"})
        nb == list([r \in 1..Len(temp_board) |-> merged[r][1]])
    IN  [new_board |-> IF vertical THEN transpose(nb) ELSE nb,
         score_gain |-> SumSeq([r \in 1..Len(temp_board) |-> merged[r][2]]),
         moved |-> rows_moved(temp_board, merged)]

possible_moves == <<"up", "down", "left", "right">>
Directions == {possible_moves[k] : k \in 1..Len(possible_moves)}

(***************************************************************************)
(* Heuristic evaluator.                                                    *)
(***************************************************************************)
MaxOf(S) == CHOOSE x \in S : \A y \in S : x >= y

score_board(b) ==
    LET highest_tile == MaxOf({MaxOf({b[r][c] : c \in 1..Len(b[r])}) : r \in 1..Len(b)})
        empty_tiles == Cardinality({p \in (1..Len(b)) \X (1..Size) : b[p[1]][p[2]] = 0})
        corner_bonus == IF b[4][4] = highest_tile THEN 100 ELSE 0
        last_row == b[4]
        mono_bonus == IF \A i \in 0..2 : last_row[i + 1] >= last_row[i + 2] THEN 50 ELSE 0
    IN  highest_tile + corner_bonus + empty_tiles * 2 + mono_bonus

(***************************************************************************)
(* Lookahead search.  max_score and best_score start at -float('inf'):     *)
(* NegInf, below every number.                                             *)
(***************************************************************************)
NegInf == [inf |-> TRUE, v |-> 0]
Fin(x) == [inf |-> FALSE, v |-> x]

\* variant of la_better: score < max_score
la_better_less(s, max_score) == max_score.inf \/ s < max_score.v

\* score > max_score, in lookahead_score
la_better(s, max_score) == max_score.inf \/ s > max_score.v

\* the value returned once the loop over the moves has ended
la_result(max_score) == IF max_score = NegInf THEN GameOverPenalty ELSE max_score.v

RECURSIVE lookahead_score(_, _)
RECURSIVE lookahead_loop(_, _, _, _)
\* the for loop of lookahead_score from possible_moves[k] on
lookahead_loop(b, d, k, max_score) ==
    IF k > Len(possible_moves)
    THEN max_score
    ELSE LET res == move_local(b, possible_moves[k])
         IN  IF ~res.moved
             THEN lookahead_loop(b, d, k + 1, max_score)
             ELSE LET s == lookahead_score(res.new_board, d - 1)
                  IN  lookahead_loop(b, d, k + 1,
                                     IF la_better(s, max_score) THEN Fin(s) ELSE max_score)

lookahead_score(b, d) ==
    IF d = 0
    THEN score_board(b)
    ELSE la_result(lookahead_loop(b, d, 1, NegInf))

(***************************************************************************)
(* Decision policy.                                                        *)
(***************************************************************************)
None == "None"

\* variant of da_better: score >= best_score
da_better_or_equal(s, best_score) == best_score.inf \/ s >= best_score.v

\* variant of da_skip: no move is skipped
da_skip_never(m) == FALSE

\* score > best_score, in decide_action
da_better(s, best_score) == best_score.inf \/ s > best_score.v

\* if not moved: continue, in decide_action
da_skip(m) == ~m

\* the for loop of decide_action from possible_moves[k] on; returns
\* <<best_move, best_score>>
RECURSIVE decide_loop(_, _, _, _)
decide_loop(b, k, best_move, best_score) ==
    IF k > Len(possible_moves)
    THEN <<best_move, best_score>>
    ELSE LET res == move_local(b, possible_moves[k])
         IN  IF da_skip(res.moved)
             THEN decide_loop(b, k + 1, best_move, best_score)
             ELSE LET s == lookahead_score(res.new_board, LookaheadDepth)
                  IN  IF da_better(s, best_score)
                      THEN decide_loop(b, k + 1, possible_moves[k], Fin(s))
                      ELSE decide_loop(b, k + 1, best_move, best_score)

\* the values decide_action may return on a state that holds a board:
\* random.choice may give any of possible_moves
decide_action(st) ==
    LET best_move == decide_loop(st["board"], 1, None, NegInf)[1]
    IN  IF best_move = None
        THEN {[best_move |-> m, random |-> TRUE] : m \in Directions}
        ELSE {[best_move |-> best_move, random |-> FALSE]}

(***************************************************************************)
(* Reward function.  A call ends by returning a number or by raising the   *)
(* KeyError of a dict subscript whose key is missing.                      *)
(***************************************************************************)
Return(x) == [kind |-> "return", value |-> x]
Raise(e) == [kind |-> "raise", error |-> e]

\* dict.get(key, default)
get(d, key, default) == IF key \in DOMAIN d THEN d[key] ELSE default

\* sum(cell == 0 for row in board for cell in row)
count_empty(b) ==
    Cardinality({p \in (1..Len(b)) \X (1..Size) : p[2] <= Len(b[p[1]]) /\ b[p[1]][p[2]] = 0})

\* variant of highest_tile_bonus: >= for >
highest_tile_bonus_or_equal(new, old) ==
    IF new["highest"] >= old["highest"] THEN 100 * (new["highest"] \div 128) ELSE 0

highest_tile_bonus(new, old) ==
    IF new["highest"] > old["highest"] THEN 100 * (new["highest"] \div 128) ELSE 0

loss_penalty(new) == IF get(new, "gameOver", FALSE) THEN -500 ELSE 0

move_penalty == -1

compute_reward(new, old) ==
    IF ~({"score", "highest", "board"} \subseteq DOMAIN new
         /\ {"score", "highest"} \subseteq DOMAIN old)
    THEN Raise("KeyError")
    ELSE LET gain == new["score"] - old["score"]
             empty_bonus == count_empty(new["board"]) * 2
         IN  Return(gain + highest_tile_bonus(new, old) + empty_bonus
                    + loss_penalty(new) + move_penalty)

(***************************************************************************)
(* Episode driver.                                                         *)
(***************************************************************************)
\* variant of next_done: the flag read under a key the server never sends
next_done_wrong_key(new) == get(new, "done", FALSE)

\* done = new_state.get("gameOver", False)
next_done(new) == get(new, "gameOver", FALSE)

\* the tuple appended to game_experience
experience(old, a, r) == <<old, a, r>>

(***************************************************************************)
(* The boards the calls start from.                                        *)
(***************************************************************************)
Positions == (1..Size) \X (1..Size)

PlaceTiles(f) ==
    list([r \in 1..Size |-> list([c \in 1..Size |->
        IF <<r, c>> \in DOMAIN f THEN f[<<r, c>>] ELSE 0])])

\* boards of at most MaxTiles tiles, anywhere
SparseBoards ==
    {PlaceTiles(f) : f \in UNION {[P -> Tiles] :
        P \in {Q \in SUBSET Positions : Cardinality(Q) <= MaxTiles}}}

\* full boards of two alternating values: no move is legal when the values
\* differ, every row and column is four equal tiles when they are equal
Checker(a, b) ==
    list([r \in 1..Size |-> list([c \in 1..Size |-> IF (r + c) % 2 = 0 THEN a ELSE b])])

CheckerBoards == {Checker(a, b) : a \in Tiles, b \in Tiles}

\* boards whose rows are taken from a pool: empty, full, stuck and mixed rows
SeedRows ==
    {<<0, 0, 0, 0>>, <<0, 2, 2, 4>>, <<2, 2, 2, 2>>, <<2, 4, 2, 4>>, <<4, 2, 4, 2>>}

SeedBoards == [1..Size -> SeedRows]

\* full and nearly full boards
DenseBoards == [1..Size -> {<<0, 2, 2, 4>>, <<2, 4, 2, 4>>}]

\* the game states a server may send: a board, the score, the highest tile
\* and the flag gameOver, any of which may be missing
StuckBoard == Checker(2, 4)
OpenBoard == <<<<0, 0, 0, 0>>, <<0, 2, 0, 0>>, <<0, 0, 0, 0>>, <<2, 2, 0, 4>>>>
FullBoard == Checker(2, 2)

Without(d, key) == [k \in DOMAIN d \ {key} |-> d[k]]

FlaggedStates(boards, scores, highests) ==
    {[board |-> b, score |-> sc, highest |-> hi, gameOver |-> g] :
        b \in boards, sc \in scores, hi \in highests, g \in BOOLEAN}

\* each well-formed state, and the same with one key missing
WithMissing(S) ==
    S \cup {Without(st, key) : st \in S, key \in {"board", "score", "highest", "gameOver"}}

RewardStates ==
    WithMissing(FlaggedStates({StuckBoard, OpenBoard, FullBoard}, {0, 4}, {4, 128, 256}))

ServerStates ==
    LET S == FlaggedStates({StuckBoard, OpenBoard}, {4}, {4})
    IN  S \cup {Without(st, "gameOver") : st \in S}
          \cup {Without([board |-> OpenBoard, score |-> 4, highest |-> 4, gameOver |-> FALSE], key) :
                   key \in {"board", "score"}}

NoBoard == <<>>
NoState == [none |-> TRUE]

RowIdle == row = <<>> /\ merged_row = <<>> /\ row_gain = 0
PolicyIdle == depth = 0 /\ score = 0 /\ action = None /\ used_random = FALSE
RewardIdle == old_state = NoState /\ new_state = NoState /\ reward = Return(0)
GameIdle ==
    /\ state = NoState /\ done = FALSE /\ move_count = 0 /\ game_experience = <<>>
    /\ sent = <<>> /\ observed = <<>>
SimIdle ==
    /\ board = NoBoard /\ direction = "none" /\ new_board = NoBoard
    /\ score_gain = 0 /\ moved = FALSE

(***************************************************************************)
(* SpecRow: one call of compress_and_merge_row_left on any row.            *)
(***************************************************************************)
InitRow ==
    /\ pc = "call"
    /\ row \in Rows /\ merged_row = <<>> /\ row_gain = 0
    /\ SimIdle /\ PolicyIdle /\ RewardIdle /\ GameIdle

CompressAndMergeRowLeft ==
    /\ pc = "call"
    /\ LET res == compress_and_merge_row_left(row)
       IN  merged_row' = res[1] /\ row_gain' = res[2]
    /\ pc' = "ret"
    /\ UNCHANGED <<row, simVars, policyVars, rewardVars, gameVars>>

NextRow == CompressAndMergeRowLeft

SpecRow == InitRow /\ [][NextRow]_vars

(***************************************************************************)
(* SpecSim: sequences of simulated moves.  MoveLocal is one call of        *)
(* move_local; Descend is lookahead_score handing the board of a legal     *)
(* move to the next level, whose calls of move_local start from it.        *)
(***************************************************************************)
InitSim ==
    /\ pc = "call"
    /\ board \in SparseBoards \cup CheckerBoards \cup DenseBoards
    /\ direction = "none" /\ new_board = NoBoard /\ score_gain = 0 /\ moved = FALSE
    /\ RowIdle /\ PolicyIdle /\ RewardIdle /\ GameIdle

MoveLocal(d) ==
    /\ pc = "call"
    /\ LET res == move_local(board, d)
       IN  /\ new_board' = res.new_board
           /\ score_gain' = res.score_gain
           /\ moved' = res.moved
    /\ direction' = d
    /\ pc' = "ret"
    /\ UNCHANGED <<board, rowVars, policyVars, rewardVars, gameVars>>

Descend ==
    /\ pc = "ret"
    /\ moved
    /\ board' = new_board
    /\ pc' = "call"
    /\ UNCHANGED <<direction, new_board, score_gain, moved, rowVars, policyVars, rewardVars, gameVars>>

NextSim == (\E d \in Directions : MoveLocal(d)) \/ Descend

SpecSim == InitSim /\ [][NextSim]_vars

(***************************************************************************)
(* SpecPolicy: one call of lookahead_score or of decide_action on a board. *)
(***************************************************************************)
PolicyBoards == SeedBoards \cup CheckerBoards

InitPolicy ==
    /\ pc = "call"
    /\ board \in PolicyBoards
    /\ direction = "none" /\ new_board = NoBoard /\ score_gain = 0 /\ moved = FALSE
    /\ RowIdle /\ PolicyIdle /\ RewardIdle /\ GameIdle

LookaheadScore(d) ==
    /\ pc = "call"
    /\ depth' = d
    /\ score' = lookahead_score(board, d)
    /\ pc' = "ret_lookahead"
    /\ UNCHANGED <<rowVars, simVars, action, used_random, rewardVars, gameVars>>

DecideAction ==
    /\ pc = "call"
    /\ \E res \in decide_action([board |-> board]) :
          action' = res.best_move /\ used_random' = res.random
    /\ pc' = "ret_decide"
    /\ UNCHANGED <<rowVars, simVars, depth, score, rewardVars, gameVars>>

NextPolicy == (\E d \in 0..MaxDepth : LookaheadScore(d)) \/ DecideAction

SpecPolicy == InitPolicy /\ [][NextPolicy]_vars

(***************************************************************************)
(* SpecReward: one call of compute_reward on any two game states.          *)
(***************************************************************************)
InitReward ==
    /\ pc = "call"
    /\ old_state \in RewardStates /\ new_state \in RewardStates
    /\ reward = Return(0)
    /\ RowIdle /\ SimIdle /\ PolicyIdle /\ GameIdle

ComputeReward ==
    /\ pc = "call"
    /\ reward' = compute_reward(new_state, old_state)
    /\ pc' = "ret"
    /\ UNCHANGED <<rowVars, simVars, policyVars, old_state, new_state, gameVars>>

NextReward == ComputeReward

SpecReward == InitReward /\ [][NextReward]_vars

(***************************************************************************)
(* SpecGame: play_one_game against a server that may answer get_state and  *)
(* send_move with any of ServerStates.  An exception raised in the loop    *)
(* leaves play_one_game, which then returns no trace: pc = "raised".       *)
(***************************************************************************)
InitGame ==
    /\ pc = "loop"
    /\ state \in ServerStates                 \* reset_game(); state = get_state()
    /\ observed = <<state>>
    /\ done = FALSE /\ move_count = 0 /\ game_experience = <<>> /\ sent = <<>>
    /\ RowIdle /\ SimIdle /\ PolicyIdle /\ RewardIdle

\* while not done: action = decide_action(state); old_state = state;
\* send_move(action) posts the move
Submit ==
    /\ pc = "loop" /\ ~done
    /\ move_count < MaxMoves
    /\ "board" \in DOMAIN state
    /\ \E res \in decide_action(state) :
          action' = res.best_move /\ used_random' = res.random
    /\ old_state' = state
    /\ sent' = Append(sent, action')
    /\ pc' = "await"
    /\ UNCHANGED <<rowVars, simVars, depth, score, new_state, reward,
                   state, done, move_count, game_experience, observed>>

\* state["board"] raises KeyError in decide_action
SubmitRaises ==
    /\ pc = "loop" /\ ~done
    /\ move_count < MaxMoves
    /\ "board" \notin DOMAIN state
    /\ pc' = "raised"
    /\ UNCHANGED <<rowVars, simVars, policyVars, rewardVars, gameVars>>

\* send_move returns resp; the rest of the loop body
Respond(resp) ==
    /\ pc = "await"
    /\ new_state' = resp
    /\ observed' = Append(observed, resp)
    /\ reward' = compute_reward(resp, old_state)
    /\ IF reward'.kind = "raise"
       THEN /\ pc' = "raised"
            /\ UNCHANGED <<state, done, move_count, game_experience>>
       ELSE /\ game_experience' =
                  Append(game_experience, experience(old_state, action, reward'.value))
            /\ state' = resp
            /\ done' = next_done(resp)
            /\ move_count' = move_count + 1
            /\ pc' = "loop"
    /\ UNCHANGED <<rowVars, simVars, policyVars, old_state, sent>>

\* the loop has ended: print, return game_experience
ReturnExperience ==
    /\ pc = "loop" /\ done
    /\ pc' = "returned"
    /\ UNCHANGED <<rowVars, simVars, policyVars, rewardVars, gameVars>>

NextGame ==
    \/ Submit
    \/ SubmitRaises
    \/ \E resp \in ServerStates : Respond(resp)
    \/ ReturnExperience

SpecGame == InitGame /\ [][NextGame]_vars

(***************************************************************************)
(* Properties.                                                             *)
(***************************************************************************)
\* the directions that change board b
Legal(b) == {d \in Directions : move_local(b, d).moved}

\* the 2048 merge of a row without zeros: scanning from the left, a tile
\* equal to its right neighbour is replaced with it by their double
RECURSIVE RuleScan(_)
RuleScan(t) ==
    IF t = <<>> THEN <<>>
    ELSE IF Len(t) >= 2 /\ t[1] = t[2]
         THEN <<2 * t[1]>> \o RuleScan(SubSeq(t, 3, Len(t)))
         ELSE <<t[1]>> \o RuleScan(Tail(t))

RECURSIVE RuleGain(_)
RuleGain(t) ==
    IF t = <<>> THEN 0
    ELSE IF Len(t) >= 2 /\ t[1] = t[2]
         THEN 2 * t[1] + RuleGain(SubSeq(t, 3, Len(t)))
         ELSE RuleGain(Tail(t))

RuleRow(r) ==
    LET t == RuleScan(SelectSeq(r, LAMBDA val : val # 0))
    IN  t \o list([k \in 1..(Len(r) - Len(t)) |-> 0])

\* C1: compress_and_merge_row_left returns the row of the 2048 merge rule
\* (zeros removed, each tile equal to its right neighbour and not consumed
\* by a merge doubled with it, zeros padded on the right) and the sum of
\* the doubled values; [v,v,v,v] gives [2v,2v,0,0] and 4v.
C1_MergeRule ==
    pc = "ret" /\ row # <<>> =>
        /\ merged_row = RuleRow(row)
        /\ row_gain = RuleGain(SelectSeq(row, LAMBDA val : val # 0))

\* C2: the moved flag of move_local is true exactly when the returned board
\* differs from the board given.
C2_MovedIffChanged ==
    pc = "ret" /\ direction \in Directions => (moved <=> new_board # board)

C2_Witness ==
    /\ pc = "ret" /\ direction = "down"
    /\ ~moved /\ new_board = board /\ BoardSum(board) > 0

\* the rows and the columns of b, in both reading orders
Lines(b) ==
    LET t == transpose(b)
        L == {b[r] : r \in 1..Len(b)} \cup {t[c] : c \in 1..Len(t)}
    IN  L \cup {reversed(l) : l \in L}

\* C8: the row returned by compress_and_merge_row_left has the sum of the
\* row given, the board returned by move_local has the sum of the board
\* given, and the sum of the board is the same along simulated moves.
C8_SumConserved ==
    [][ /\ pc = "call" =>
              \A l \in Lines(board) : SumSeq(compress_and_merge_row_left(l)[1]) = SumSeq(l)
        /\ pc' = "ret" => BoardSum(new_board') = BoardSum(board)
        /\ BoardSum(board') = BoardSum(board) ]_vars

C8_Witness ==
    /\ pc = "call" /\ direction \in Directions
    /\ score_gain > 0 /\ board = new_board /\ BoardSum(board) > 0

IsTile(n) == \E e \in 1..(MaxExp + 4) : n = Pow2(e)

IsBoard(b) ==
    /\ Len(b) = 4
    /\ \A r \in 1..4 : Len(b[r]) = 4 /\ \A c \in 1..4 : b[r][c] = 0 \/ IsTile(b[r][c])

\* C9: from a 4x4 board of zeros and powers of two, every board reached by
\* simulated moves is a 4x4 board of zeros and powers of two.
C9_PowersOfTwo ==
    /\ IsBoard(board)
    /\ pc = "ret" => IsBoard(new_board)

C9_Witness ==
    /\ pc = "call" /\ board = new_board
    /\ \E r \in 1..4, c \in 1..4 : board[r][c] = Pow2(MaxExp + 2)

\* the value decide_action gives direction d on the current board
MoveValue(d) == lookahead_score(move_local(board, d).new_board, 2)

Order(d) == CHOOSE k \in 1..4 : <<"up", "down", "left", "right">>[k] = d

\* C3: on a board with a legal direction decide_action returns the legal
\* direction of greatest lookahead value, and among several of them the
\* first in the order up, down, left, right.
C3_BestFirst ==
    pc = "ret_decide" /\ Legal(board) # {} =>
        /\ action \in Legal(board)
        /\ \A d \in Legal(board) :
              /\ MoveValue(action) >= MoveValue(d)
              /\ MoveValue(d) = MoveValue(action) => Order(action) <= Order(d)

C3_Witness ==
    /\ pc = "ret_decide"
    /\ action \in Legal(board)
    /\ \E d \in Legal(board) : Order(d) < Order(action) /\ MoveValue(d) < MoveValue(action)
    /\ \E d \in Legal(board) : Order(d) > Order(action) /\ MoveValue(d) = MoveValue(action)

\* C5: decide_action returns one of the four directions; random.choice runs
\* only when no direction is legal; when some direction is legal the one
\* returned is legal.
C5_LegalUnlessStuck ==
    pc = "ret_decide" =>
        /\ action \in {"up", "down", "left", "right"}
        /\ used_random => Legal(board) = {}
        /\ Legal(board) # {} => move_local(board, action).moved

C5_Witness ==
    /\ pc = "ret_decide"
    /\ "up" \notin Legal(board) /\ Legal(board) # {}
    /\ ~used_random /\ move_local(board, action).moved

\* C6: lookahead_score(B, 0) is score_board(B); for d > 0 it is -10000 when
\* no direction is legal and otherwise the greatest lookahead_score at
\* depth d - 1 over the boards of the legal directions; -10000 is below
\* score_board of every board.
C6_Lookahead ==
    /\ pc = "ret_lookahead" =>
          score = IF depth = 0 THEN score_board(board)
                  ELSE IF Legal(board) = {} THEN -10000
                  ELSE MaxOf({lookahead_score(move_local(board, d).new_board, depth - 1) :
                                d \in Legal(board)})
    /\ -10000 < score_board(board)
    /\ \A d \in Directions : -10000 < score_board(move_local(board, d).new_board)

C6_Witness ==
    /\ pc = "ret_lookahead" /\ depth = 2
    /\ Legal(board) = {} /\ BoardSum(board) > 0 /\ score = -10000

ZeroCells(b) == Cardinality({p \in (1..4) \X (1..4) : b[p[1]][p[2]] = 0})

\* compute_reward has returned for two identical states that are not terminal
SameStateRewarded ==
    /\ pc = "ret" /\ reward.kind = "return"
    /\ new_state = old_state
    /\ ~get(new_state, "gameOver", FALSE)

\* C4, as claimed: compute_reward(s, s) on a state s that is not terminal
\* is -1.
C4_Original == SameStateRewarded => reward.value = -1

\* C4, amended: compute_reward(s, s) on a state s that is not terminal is
\* twice the number of empty cells of its board, less 1; it is -1 exactly
\* when the board has no empty cell.
C4_Amended ==
    SameStateRewarded =>
        /\ reward.value = 2 * ZeroCells(new_state["board"]) - 1
        /\ reward.value = -1 <=> ZeroCells(new_state["board"]) = 0

C4_Witness ==
    /\ SameStateRewarded
    /\ ZeroCells(new_state["board"]) > 0 /\ new_state["highest"] >= 128

\* C7: compute_reward on a new state without the terminal flag fails with
\* an error and returns no number.
C7_MissingFlagFails ==
    pc = "ret" /\ "gameOver" \notin DOMAIN new_state => reward.kind = "raise"

IsPrefix(s, t) == Len(s) <= Len(t) /\ SubSeq(t, 1, Len(s)) = s

Terminal(st) == get(st, "gameOver", FALSE)

\* observed[1] is the state of get_state, observed[k + 1] the response to
\* move k
TraceMatches ==
    /\ pc \in {"loop", "returned"} =>
          /\ Len(game_experience) = Len(sent)
          /\ Len(observed) = Len(sent) + 1
          /\ \A k \in 1..Len(sent) :
                game_experience[k] =
                    <<observed[k], sent[k], compute_reward(observed[k + 1], observed[k]).value>>
    /\ \A j \in 1..Len(sent) : \A k \in 2..j : ~Terminal(observed[k])

\* C10: in play_one_game the trace is append-only and holds one record per
\* submitted move, in order: the state before the move, the move, the
\* reward of the response against that state; the state of the next record
\* is that response; no move follows a response whose flag is set.
C10_Trace ==
    [][ /\ TraceMatches /\ TraceMatches'
        /\ IsPrefix(game_experience, game_experience')
        /\ IsPrefix(sent, sent') ]_vars

C10_Witness ==
    /\ pc = "returned" /\ Len(game_experience) >= 2
    /\ Terminal(observed[Len(observed)])
    /\ \E k \in 1..Len(game_experience) : game_experience[k][3] # game_experience[1][3]

====
